---- MODULE Spec2Model ----
(***************************************************************************)
(* Olist monthly trend pack: the QA helpers and the QA stage of            *)
(* scripts/01_monthly_trend_pack.py and the chart / report run of          *)
(* scripts/02_monthly_trend_charts.py.                                     *)
(*                                                                         *)
(* A table (DataFrame) is [cols |-> set of column names, rows |-> sequence *)
(* of rows], a row being a function from the column names to cells.  A     *)
(* cell is a tuple of integers: <<>> is the missing value (NaN / NaT),     *)
(* <<n>> a number or a parsed date (days since 1970-01-01), <<y, m>> the   *)
(* text "YYYY-MM" of a month column (m outside 1..12 is a text that does   *)
(* not parse).  A printed or logged line is a record                       *)
(* [kind, who, cols, nums] holding the fields its f-string formats.        *)
(***************************************************************************)
EXTENDS Integers, Sequences, FiniteSets, TLC

VARIABLES
    pc01,        \* position of scripts/01 main
    db,          \* the four query results (run_query), by dataset
    csv,         \* outputs/csv: dataset -> exported table, or NoFile
    stdout,      \* lines printed by the QA helpers of scripts/01
    pc,          \* position of scripts/02 main
    data,        \* load_trend_pack_data's dict: dataset -> normalized table
    qa_notes,    \* main's qa_notes list
    insights,    \* main's insights list
    thresholds,  \* main's thresholds list
    charted,     \* chart file -> the rows handed to ax.plot, or NoFile
    lines,       \* the lines returned by build_trend_pack_report
    report,      \* outputs/trend_pack.md: the lines written, or NoFile
    err,         \* the exception that ended scripts/02 main, or NoExc
    df,          \* the table a helper is called on directly
    ret          \* the record of the last direct call

logVars  == <<qa_notes, insights>>
callVars == <<df, ret>>
vars     == <<pc01, db, csv, stdout, pc, data, qa_notes, insights, thresholds,
              charted, lines, report, err, df, ret>>

-----------------------------------------------------------------------------
(* Bounds of the model *)

MaxRows == 3

MaxNotes == 2

MaxInsights == 3

-----------------------------------------------------------------------------
(* Cells, rows, tables, messages *)

Null == <<>>

Num(n) == <<n>>

IsNull(v) == Len(v) = 0

Table(cols, rows) == [cols |-> cols, rows |-> rows]

Msg(kind, who, cols, nums) == [kind |-> kind, who |-> who, cols |-> cols, nums |-> nums]

NoExc == Msg("None", "", <<>>, <<>>)

NoFile == Table({"<no file>"}, <<>>)

Range(s) == {s[i] : i \in 1..Len(s)}

RECURSIVE SumSeq(_)
SumSeq(s) == IF s = <<>> THEN 0 ELSE s[1] + SumSeq(Tail(s))

-----------------------------------------------------------------------------
(* pd.to_datetime(text + '-01', errors='coerce') and Timestamp.date() *)

\* days from 1970-01-01 to the civil date y-m-d (proleptic Gregorian)
DaysFromCivil(y, m, d) ==
    LET yy  == IF m <= 2 THEN y - 1 ELSE y
        era == yy \div 400
        yoe == yy - era * 400
        mp  == IF m > 2 THEN m - 3 ELSE m + 9
        doy == (153 * mp + 2) \div 5 + d - 1
        doe == yoe * 365 + yoe \div 4 - yoe \div 100 + doy
    IN  era * 146097 + doe - 719468

\* the civil date <<y, m, d>> of a day number
CivilFromDays(z) ==
    LET zz  == z + 719468
        era == zz \div 146097
        doe == zz - era * 146097
        yoe == (doe - doe \div 1460 + doe \div 36524 - doe \div 146096) \div 365
        doy == doe - (365 * yoe + yoe \div 4 - yoe \div 100)
        mp  == (5 * doy + 2) \div 153
        d   == doy - (153 * mp + 2) \div 5 + 1
        m   == IF mp < 10 THEN mp + 3 ELSE mp - 9
        y   == yoe + era * 400 + (IF m <= 2 THEN 1 ELSE 0)
    IN  <<y, m, d>>

\* a cell of a month column, with '-01' appended, parsed; NaT when it does not parse
ToDatetime(s) ==
    IF Len(s) = 2 /\ s[2] \in 1..12 THEN Num(DaysFromCivil(s[1], s[2], 1)) ELSE Null

-----------------------------------------------------------------------------
(* Sorting: Series.sort_values / DataFrame.sort_values(kind='mergesort'),   *)
(* ascending, missing keys last, equal keys in their input order            *)

\* an order that puts the missing keys first
KeyLENullFirst(a, b) == IsNull(a) \/ (~IsNull(b) /\ a[1] <= b[1])

KeyLE(a, b) == IsNull(b) \/ (~IsNull(a) /\ a[1] <= b[1])

\* an insertion that puts index i before the indices of equal keys
RECURSIVE InsertByKeyBefore(_, _, _)
InsertByKeyBefore(sorted, i, keys) ==
    IF sorted = <<>> THEN <<i>>
    ELSE IF KeyLE(keys[sorted[1]], keys[i]) /\ ~KeyLE(keys[i], keys[sorted[1]])
         THEN <<sorted[1]>> \o InsertByKeyBefore(Tail(sorted), i, keys)
         ELSE <<i>> \o sorted

\* the stable insertion of index i into a list of indices sorted by keys
RECURSIVE InsertByKey(_, _, _)
InsertByKey(sorted, i, keys) ==
    IF sorted = <<>> THEN <<i>>
    ELSE IF KeyLE(keys[sorted[1]], keys[i])
         THEN <<sorted[1]>> \o InsertByKey(Tail(sorted), i, keys)
         ELSE <<i>> \o sorted

\* the permutation that sorts keys: position -> index into keys
RECURSIVE SortPerm(_, _)
SortPerm(keys, n) ==
    IF n = 0 THEN <<>> ELSE InsertByKey(SortPerm(keys, n - 1), n, keys)

\* the items ordered by their keys (keys[i] is the key of items[i])
SortByKey(items, keys) ==
    LET perm == SortPerm(keys, Len(keys))
    IN  [i \in 1..Len(items) |-> items[perm[i]]]

\* Series.drop_duplicates(): the first occurrence of each value, in order
RECURSIVE DropDuplicates(_)
DropDuplicates(s) ==
    IF s = <<>> THEN <<>>
    ELSE LET head == DropDuplicates(SubSeq(s, 1, Len(s) - 1))
         IN  IF s[Len(s)] \in Range(head) THEN head ELSE Append(head, s[Len(s)])

-----------------------------------------------------------------------------
(* scripts/01_monthly_trend_pack.py: the QA helpers.  Each returns         *)
(* [exc |-> the exception raised or NoExc, out |-> the lines printed].     *)

Res(exc, out) == [exc |-> exc, out |-> out]

\* statement sequencing: b runs only if a did not raise
Then(a, b) == IF a.exc # NoExc THEN a ELSE Res(b.exc, a.out \o b.out)

\* df[c] on a column the frame does not have
KeyError(c) == Msg("KeyError", "", <<c>>, <<>>)

\* a required-columns check that looks at the first declared column only
qa_required_columns_first(d, required, label) ==
    IF required # <<>> /\ required[1] \notin d.cols
    THEN Res(Msg("ValueError", label, <<required[1]>>, <<>>), <<>>)
    ELSE Res(NoExc, <<>>)

qa_required_columns(d, required, label) ==
    LET missing == SelectSeq(required, LAMBDA c : c \notin d.cols)
    IN  IF missing # <<>>
        THEN Res(Msg("ValueError", label, missing, <<>>), <<>>)
        ELSE Res(NoExc, <<>>)

RECURSIVE NoNullsLoop(_, _, _, _, _)
NoNullsLoop(d, cols, label, i, out) ==
    IF i > Len(cols) THEN Res(NoExc, out)
    ELSE IF cols[i] \notin d.cols THEN Res(KeyError(cols[i]), out)
    ELSE LET n == Len(SelectSeq(d.rows, LAMBDA r : IsNull(r[cols[i]])))
         IN  NoNullsLoop(d, cols, label, i + 1,
                 IF n # 0 THEN Append(out, Msg("nulls", label, <<cols[i]>>, <<n>>))
                 ELSE out)

\* a null check that looks at the first declared column only
qa_no_nulls_first(d, cols, label) == NoNullsLoop(d, <<cols[1]>>, label, 1, <<>>)

qa_no_nulls(d, cols, label) == NoNullsLoop(d, cols, label, 1, <<>>)

\* the cells of a row under the key columns
KeyTuple(r, keys) == [j \in 1..Len(keys) |-> r[keys[j]]]

\* a duplicate count that compares the first key column only
RECURSIVE DuplicatedSumFirstKey(_, _, _, _)
DuplicatedSumFirstKey(rows, keys, i, seen) ==
    IF i > Len(rows) THEN 0
    ELSE LET k == rows[i][keys[1]]
         IN  (IF k \in seen THEN 1 ELSE 0) + DuplicatedSumFirstKey(rows, keys, i + 1, seen \cup {k})

\* df.duplicated(subset=keys).sum(): a row counts when its key tuple was seen before
RECURSIVE DuplicatedSum(_, _, _, _)
DuplicatedSum(rows, keys, i, seen) ==
    IF i > Len(rows) THEN 0
    ELSE LET k == KeyTuple(rows[i], keys)
         IN  (IF k \in seen THEN 1 ELSE 0) + DuplicatedSum(rows, keys, i + 1, seen \cup {k})

qa_unique_month(d, month_col, label, extra_keys) ==
    LET keys    == <<month_col>> \o extra_keys
        missing == SelectSeq(keys, LAMBDA c : c \notin d.cols)
        dup     == DuplicatedSum(d.rows, keys, 1, {})
    IN  IF missing # <<>> THEN Res(Msg("KeyError", "", missing, <<>>), <<>>)
        ELSE IF dup # 0 THEN Res(NoExc, <<Msg("duplicates", label, keys, <<dup>>)>>)
        ELSE Res(NoExc, <<>>)

\* diffs.dt.days > 35
GapDays == 35

\* the month column parsed and de-duplicated but left in table order
SortedMonthsUnsorted(d, month_col) ==
    DropDuplicates(SelectSeq([i \in 1..Len(d.rows) |-> ToDatetime(d.rows[i][month_col])],
                             LAMBDA v : ~IsNull(v)))

\* months: the parsed, sorted, non-null, de-duplicated month column
SortedMonths(d, month_col) ==
    LET parsed == [i \in 1..Len(d.rows) |-> ToDatetime(d.rows[i][month_col])]
        sorted == SortByKey(parsed, parsed)
    IN  DropDuplicates(SelectSeq(sorted, LAMBDA v : ~IsNull(v)))

qa_month_continuity(d, month_col, label) ==
    IF month_col \notin d.cols THEN Res(KeyError(month_col), <<>>)
    ELSE
    LET months == SortedMonths(d, month_col)
        n      == Len(months)
        \* months.diff().dropna(): entry i is months[i+1] - months[i]
        diffs  == [i \in 1..(n - 1) |-> months[i + 1][1] - months[i][1]]
        gaps   == SelectSeq([i \in 1..(n - 1) |-> i], LAMBDA i : diffs[i] > GapDays)
    IN  IF n < 2 THEN Res(NoExc, <<>>)
        ELSE IF gaps = <<>> THEN Res(NoExc, <<>>)
        ELSE Res(NoExc,
                 <<Msg("gaps detected", label, <<>>, <<>>)>> \o
                 [g \in 1..Len(gaps) |->
                     Msg("gap before", label, <<>>,
                         CivilFromDays(months[gaps[g] + 1][1]) \o <<diffs[gaps[g]]>>)])

qa_non_negative(d, col, label) ==
    IF col \in d.cols
    THEN LET neg == Len(SelectSeq(d.rows, LAMBDA r : ~IsNull(r[col]) /\ r[col][1] < 0))
         IN  IF neg # 0 THEN Res(NoExc, <<Msg("negative", label, <<col>>, <<neg>>)>>)
             ELSE Res(NoExc, <<>>)
    ELSE Res(NoExc, <<>>)

-----------------------------------------------------------------------------
(* scripts/02_monthly_trend_charts.py: add_month and the chart stages.     *)
(* Each returns [exc, table, notes, ins, plot]: the exception raised or    *)
(* NoExc, the frame returned, the qa_notes and insights lists as the call  *)
(* leaves them (main always passes both lists), and the rows handed to     *)
(* ax.plot (NoPlot when the stage raised before plotting).                 *)

NoPlot == <<[none |-> Null]>>

Out(exc, table, notes, ins, plot) ==
    [exc |-> exc, table |-> table, notes |-> notes, ins |-> ins, plot |-> plot]

\* out['month'] = ...: the row with its 'month' cell set (added or replaced)
WithMonth(r, cols, v) == [c \in cols \cup {"month"} |-> IF c = "month" THEN v ELSE r[c]]

add_month(d, col, notes) ==
    IF col \notin d.cols THEN Out(KeyError(col), d, notes, <<>>, NoPlot)
    ELSE
    LET out   == [i \in 1..Len(d.rows) |->
                     WithMonth(d.rows[i], d.cols, ToDatetime(d.rows[i][col]))]
        bad   == Len(SelectSeq(out, LAMBDA r : IsNull(r["month"])))
        notes2 == IF bad # 0 THEN Append(notes, Msg("unparsed", "add_month", <<col>>, <<bad>>))
                  ELSE notes
        keys  == [i \in 1..Len(out) |-> out[i]["month"]]
    IN  Out(NoExc, Table(d.cols \cup {"month"}, SortByKey(out, keys)), notes2, <<>>, NoPlot)

\* add_month without its copy: out['month'] = ... lands in the caller's frame
add_month_arg_no_copy(d, col, notes) ==
    IF col \notin d.cols THEN d
    ELSE Table(d.cols \cup {"month"},
               [i \in 1..Len(d.rows) |-> WithMonth(d.rows[i], d.cols, ToDatetime(d.rows[i][col]))])

\* the caller's frame after add_month: out = df.copy() takes every later
\* assignment, and sort_values returns a new frame
add_month_arg(d, col, notes) == d

\* missing = [c for c in required if c not in df.columns]; raise ValueError
MissingColumns(d, required, who) ==
    LET missing == SelectSeq(required, LAMBDA c : c \notin d.cols)
    IN  IF missing # <<>> THEN Msg("ValueError", who, missing, <<>>) ELSE NoExc

\* an '[INSIGHT][tag] ...' line: cols holds the bracketed tags of its text
Insight(tags, nums) == Msg("INSIGHT", "", tags, nums)

chart_revenue_per_month(df_rev, ins) ==
    LET exc == MissingColumns(df_rev, <<"month", "revenue">>, "df_rev")
    IN  IF exc # NoExc THEN Out(exc, df_rev, <<>>, ins, NoPlot)
        ELSE Out(NoExc, df_rev, <<>>,
                 IF df_rev.rows # <<>>
                 THEN Append(ins, Insight(<<"INSIGHT", "revenue">>, <<>>))
                 ELSE ins,
                 df_rev.rows)

\* a filter that keeps only the rows strictly above the minimum
AtLeastStrict(rows, col, minimum) ==
    SelectSeq(rows, LAMBDA r : ~IsNull(r[col]) /\ r[col][1] > minimum)

\* df[df[col] >= minimum]: a missing cell compares False
AtLeast(rows, col, minimum) ==
    SelectSeq(rows, LAMBDA r : ~IsNull(r[col]) /\ r[col][1] >= minimum)

\* total_orders >= 100
MinTotalOrders == 100

\* an orders stage that starts the QA notes over with its own note
chart_orders_overwriting(df_orders, notes, ins) ==
    LET exc == MissingColumns(df_orders, <<"month", "total_orders", "delivered_rate_pct">>,
                              "df_orders")
        kept == SelectSeq(df_orders.rows, LAMBDA r : ~IsNull(r["total_orders"])
                                                     /\ r["total_orders"][1] >= MinTotalOrders)
        dropped == Len(df_orders.rows) - Len(kept)
    IN  IF exc # NoExc THEN Out(exc, df_orders, notes, ins, NoPlot)
        ELSE Out(NoExc, df_orders,
                 IF dropped # 0
                 THEN <<Msg("dropped", "orders chart", <<"total_orders">>,
                            <<dropped, MinTotalOrders>>)>>
                 ELSE notes,
                 IF kept # <<>>
                 THEN Append(ins, Insight(<<"INSIGHT", "orders">>, <<>>))
                 ELSE ins,
                 kept)

chart_orders_and_delivery_rate(df_orders, notes, ins) ==
    LET exc == MissingColumns(df_orders, <<"month", "total_orders", "delivered_rate_pct">>,
                              "df_orders")
        kept == AtLeast(df_orders.rows, "total_orders", MinTotalOrders)
        dropped == Len(df_orders.rows) - Len(kept)
    IN  IF exc # NoExc THEN Out(exc, df_orders, notes, ins, NoPlot)
        ELSE Out(NoExc, df_orders,
                 IF dropped # 0
                 THEN Append(notes, Msg("dropped", "orders chart", <<"total_orders">>,
                                        <<dropped, MinTotalOrders>>))
                 ELSE notes,
                 IF kept # <<>>
                 THEN Append(ins, Insight(<<"INSIGHT", "orders">>, <<>>))
                 ELSE ins,
                 kept)

\* delivered_orders >= 100
MinDeliveredOrders == 100

chart_late_delivery_rate(df_late, notes, ins) ==
    LET exc == MissingColumns(df_late, <<"month", "delivered_orders", "late_delivery_rate_pct">>,
                              "df_late")
        kept == AtLeast(df_late.rows, "delivered_orders", MinDeliveredOrders)
        dropped == Len(df_late.rows) - Len(kept)
    IN  IF exc # NoExc THEN Out(exc, df_late, notes, ins, NoPlot)
        ELSE Out(NoExc, df_late,
                 IF dropped # 0
                 THEN Append(notes, Msg("dropped", "late delivery chart", <<"delivered_orders">>,
                                        <<dropped, MinDeliveredOrders>>))
                 ELSE notes,
                 IF kept # <<>>
                 THEN Append(ins, Insight(<<"INSIGHT", "late">>, <<>>))
                 ELSE ins,
                 kept)

-----------------------------------------------------------------------------
(* chart_review_score_late_vs_on_time *)

\* min_reviews = 30
min_reviews == 30

\* aggfunc='first': the first non-missing cell of a column among the rows of a group
RECURSIVE FirstValid(_, _)
FirstValid(rows, col) ==
    IF rows = <<>> THEN Null
    ELSE IF ~IsNull(rows[1][col]) THEN rows[1][col]
    ELSE FirstValid(Tail(rows), col)

\* the rows of one (month, is_late) group, in table order
GroupRows(rows, m, g) == SelectSeq(rows, LAMBDA r : r["month"] = m /\ r["is_late"] = g)

\* the groups pivot_table aggregates: rows with a missing month or flag are left
\* out (groupby dropna), and so is a group whose two values are both missing
PivotGroups(rows) ==
    {mg \in {<<rows[i]["month"], rows[i]["is_late"]>> : i \in 1..Len(rows)} :
        /\ ~IsNull(mg[1])
        /\ ~IsNull(mg[2])
        /\ \/ ~IsNull(FirstValid(GroupRows(rows, mg[1], mg[2]), "avg_review_score"))
           \/ ~IsNull(FirstValid(GroupRows(rows, mg[1], mg[2]), "review_count"))}

\* the cell of the pivot at month m under column (metric, is_late = g)
PivotCell(rows, m, metric, g) ==
    IF <<m, g>> \in PivotGroups(rows) THEN FirstValid(GroupRows(rows, m, g), metric) ELSE Null

\* the flattened column names, f'{metric}_late_{int(is_late)}', that survive
\* dropna(how='all', axis=1): some month holds a value under (metric, g)
PivotColumns(rows) ==
    {<<metric, g>> \in {"avg_review_score", "review_count"} \X {Num(0), Num(1)} :
        \E mg \in PivotGroups(rows) : mg[2] = g /\ ~IsNull(PivotCell(rows, mg[1], metric, g))}

\* pivot.sort_index(): the cells of a set in ascending order
RECURSIVE SortedCells(_)
SortedCells(S) ==
    IF S = {} THEN <<>>
    ELSE LET lo == CHOOSE a \in S : \A b \in S : a[1] <= b[1]
         IN  <<lo>> \o SortedCells(S \ {lo})

\* the pivot, sorted by its index: one row per month of some group
Pivot(rows) ==
    LET index == SortedCells({mg[1] : mg \in PivotGroups(rows)})
    IN  [i \in 1..Len(index) |->
            [month                   |-> index[i],
             avg_review_score_late_0 |-> PivotCell(rows, index[i], "avg_review_score", Num(0)),
             avg_review_score_late_1 |-> PivotCell(rows, index[i], "avg_review_score", Num(1)),
             review_count_late_0     |-> PivotCell(rows, index[i], "review_count", Num(0)),
             review_count_late_1     |-> PivotCell(rows, index[i], "review_count", Num(1))]]

\* needed_cols, as <<flattened name, metric, is_late>>
needed_cols ==
    << <<"avg_review_score_late_0", "avg_review_score", Num(0)>>,
       <<"avg_review_score_late_1", "avg_review_score", Num(1)>>,
       <<"review_count_late_0", "review_count", Num(0)>>,
       <<"review_count_late_1", "review_count", Num(1)>> >>

\* missing2 = [c for c in needed_cols if c not in pivot.columns]
MissingPivotColumns(rows) ==
    LET missing2 == SelectSeq(needed_cols, LAMBDA c : <<c[2], c[3]>> \notin PivotColumns(rows))
    IN  [i \in 1..Len(missing2) |-> missing2[i][1]]

\* a gate that keeps a month when either group reaches min_reviews
StableMonthsEither(pivot) ==
    SelectSeq(pivot, LAMBDA r :
        \/ ~IsNull(r["review_count_late_0"]) /\ r["review_count_late_0"][1] >= min_reviews
        \/ ~IsNull(r["review_count_late_1"]) /\ r["review_count_late_1"][1] >= min_reviews)

\* pivot[mask]: both counts present and >= min_reviews
StableMonths(pivot) ==
    SelectSeq(pivot, LAMBDA r :
        /\ ~IsNull(r["review_count_late_0"]) /\ r["review_count_late_0"][1] >= min_reviews
        /\ ~IsNull(r["review_count_late_1"]) /\ r["review_count_late_1"][1] >= min_reviews)

\* f'{x:.2f}' of num / den in thousandths: hundredths, ties to even
Fmt2(num, den) ==
    LET d   == 10 * den
        lo  == num \div d
        rem == num - lo * d
    IN  IF 2 * rem < d THEN lo
        ELSE IF 2 * rem > d THEN lo + 1
        ELSE IF lo % 2 = 0 THEN lo ELSE lo + 1

RECURSIVE MinSeq(_)
MinSeq(s) == IF Len(s) = 1 THEN s[1] ELSE LET m == MinSeq(Tail(s)) IN IF s[1] <= m THEN s[1] ELSE m

RECURSIVE MaxSeq(_)
MaxSeq(s) == IF Len(s) = 1 THEN s[1] ELSE LET m == MaxSeq(Tail(s)) IN IF s[1] >= m THEN s[1] ELSE m

\* the review-gap insight: mean, min and max of review_score_delta (missing
\* deltas skipped; <<>> prints 'nan'), the number of stable months, min_reviews
ReviewInsight(pivot2) ==
    LET valid  == SelectSeq(pivot2, LAMBDA r : ~IsNull(r["avg_review_score_late_0"])
                                             /\ ~IsNull(r["avg_review_score_late_1"]))
        deltas == [i \in 1..Len(valid) |->
                      valid[i]["avg_review_score_late_0"][1] - valid[i]["avg_review_score_late_1"][1]]
        stats  == IF deltas = <<>> THEN <<>>
                  ELSE <<Fmt2(SumSeq(deltas), Len(deltas)), Fmt2(MinSeq(deltas), 1),
                         Fmt2(MaxSeq(deltas), 1)>>
    IN  Insight(<<"INSIGHT">>, stats \o <<Len(pivot2), min_reviews>>)

\* an insight block without the empty-pivot branch
InsightStepAlways(pivot2, notes, ins) == <<notes, Append(ins, ReviewInsight(pivot2))>>

\* the insight block: a QA warning when no month is stable, else the insight;
\* <<notes, insights>> as it leaves the two lists
InsightStep(pivot2, notes, ins) ==
    IF pivot2 = <<>>
    THEN <<Append(notes, Msg("no stable months", "review score chart", <<>>, <<>>)), ins>>
    ELSE <<notes, Append(ins, ReviewInsight(pivot2))>>

chart_review_score_late_vs_on_time(df_review, notes, ins) ==
    LET exc      == MissingColumns(df_review,
                        <<"month", "is_late", "review_count", "avg_review_score">>, "df_review")
        pivot    == Pivot(df_review.rows)
        missing2 == MissingPivotColumns(df_review.rows)
        before   == Len(pivot)
        pivot2   == StableMonths(pivot)
        dropped  == before - Len(pivot2)
        notes2   == IF dropped # 0
                    THEN Append(notes, Msg("dropped", "review score chart", <<"review_count">>,
                                           <<dropped, min_reviews>>))
                    ELSE notes
        logs     == InsightStep(pivot2, notes2, ins)
    IN  IF exc # NoExc THEN Out(exc, df_review, notes, ins, NoPlot)
        ELSE IF missing2 # <<>>
        THEN Out(Msg("ValueError", "review pivot", missing2, <<>>), df_review, notes, ins, NoPlot)
        ELSE Out(NoExc, df_review, logs[1], logs[2], pivot2)

-----------------------------------------------------------------------------
(* build_trend_pack_report / write_trend_pack_report.  A line of the       *)
(* report is [kind, text, item]: a fixed text, a blank line, the bullet    *)
(* f'- {item}' of a logged line, or the placeholder '- (none)'.            *)

Line(kind, text, item) == [kind |-> kind, text |-> text, item |-> item]

Fixed(text) == Line("fixed", text, NoExc)

Blank == Line("blank", "", NoExc)

Bullet(item) == Line("bullet", "", item)

Placeholder == Line("bullet", "(none)", NoExc)

\* a list rendered without the placeholder
BulletsOnly(items) == [i \in 1..Len(items) |-> Bullet(items[i])]

\* for i in items: lines.append(f'- {i}'), or '- (none)' when the list is empty
BulletsOrNone(items) ==
    IF items # <<>> THEN [i \in 1..Len(items) |-> Bullet(items[i])] ELSE <<Placeholder>>

\* f'[{tag}]' in i
HasTag(i, tag) == tag \in Range(i.cols)

\* a selection by the '[INSIGHT]' marker alone, whatever the chart's tag
_insights_for_marker(ins, tag) == SelectSeq(ins, LAMBDA i : HasTag(i, "INSIGHT"))

_insights_for(ins, tag) == SelectSeq(ins, LAMBDA i : HasTag(i, tag))

\* thresholds are plain texts; as log lines they carry the text in 'who'
Threshold(text) == Msg("threshold", text, <<>>, <<>>)

\* an executive summary of the last two insights
ExecutiveSummaryLast(ins) ==
    SubSeq(ins, IF Len(ins) < 2 THEN 1 ELSE Len(ins) - 1, Len(ins))

\* insights[:2]
ExecutiveSummary(ins) == SubSeq(ins, 1, IF Len(ins) < 2 THEN Len(ins) ELSE 2)

build_trend_pack_report(thr, notes, ins) ==
    LET review_ins == SelectSeq(ins, LAMBDA i :
                          /\ HasTag(i, "INSIGHT")
                          /\ ~HasTag(i, "revenue")
                          /\ ~HasTag(i, "orders")
                          /\ ~HasTag(i, "late"))
    IN  <<Fixed("# Olist Monthly Trend Pack"), Blank,
          Fixed("Monthly trend pack using the Olist dataset."), Blank,
          Fixed("## Executive Summary")>>
        \o BulletsOrNone(ExecutiveSummary(ins))
        \o <<Blank,
             Fixed("## Metric Definitions"),
             Fixed("- **Revenue (delivered only):**"),
             Fixed("- **Delivered rate:**"),
             Fixed("- **Late delivery rate:**"),
             Fixed("- **Review score (avg):**"),
             Blank,
             Fixed("## Generated Charts"),
             Fixed("- outputs/charts/01_revenue_per_month.png"),
             Fixed("- outputs/charts/02_orders_and_delivered_rate.png"),
             Fixed("- outputs/charts/03_late_delivery_rate.png"),
             Fixed("- outputs/charts/04_review_score_late_vs_on_time.png"),
             Blank,
             Fixed("## Thresholds / Filters")>>
        \o BulletsOrNone(thr)
        \o <<Blank, Fixed("## QA Notes")>>
        \o BulletsOrNone(notes)
        \o <<Blank, Fixed("# Chart Notes & Insights"), Blank,
             Fixed("## 01) Revenue per Month (Delivered Orders Only)"),
             Fixed("**Chart:** outputs/charts/01_revenue_per_month.png"),
             Fixed("**QA gate:** none (baseline visibility)"),
             Blank,
             Fixed("**So what**")>>
        \o BulletsOrNone(_insights_for(ins, "revenue"))
        \o <<Blank, Fixed("**Follow-up question**"),
             Fixed("- If revenue changes, is it driven by ...?"),
             Blank,
             Fixed("## 02) Orders per Month + Delivered Rate"),
             Fixed("**Chart:** outputs/charts/02_orders_and_delivered_rate.png"),
             Fixed("**QA gate:** total_orders >= 100"),
             Blank,
             Fixed("**So what**")>>
        \o BulletsOrNone(_insights_for(ins, "orders"))
        \o <<Blank, Fixed("**Follow-up question**"),
             Fixed("- When delivered rate dips, are those months concentrated ...?"),
             Blank,
             Fixed("## 03) Late Delivery Rate (Delivered Orders Only)"),
             Fixed("**Chart:** outputs/charts/03_late_delivery_rate.png"),
             Fixed("**QA gate:** delivered_orders >= 100"),
             Blank,
             Fixed("**So what**")>>
        \o BulletsOrNone(_insights_for(ins, "late"))
        \o <<Blank, Fixed("**Follow-up question**"),
             Fixed("- Are late deliveries driven by specific sellers ...?"),
             Blank,
             Fixed("## 04) Avg Review Score - Late vs On-Time"),
             Fixed("**Chart:** outputs/charts/04_review_score_late_vs_on_time.png"),
             Fixed("**QA gate:** min_reviews = 30 for both groups"),
             Blank,
             Fixed("**So what**")>>
        \o BulletsOrNone(review_ins)
        \o <<Blank, Fixed("**Follow-up question**"),
             Fixed("- What's the review 'breakpoint' ...?"),
             Blank,
             Fixed("## Reproducibility"),
             Fixed("- Source extract script: scripts/01_monthly_trend_pack.py"),
             Fixed("- Chart + report generator: scripts/02_monthly_trend_charts.py"),
             Fixed("- Outputs: outputs/charts/ and outputs/trend_pack.md"),
             Blank>>

\* '\n'.join(lines).rstrip() + '\n': the lines without the trailing blank ones
RECURSIVE RStrip(_)
RStrip(ls) ==
    IF ls # <<>> /\ ls[Len(ls)] = Blank THEN RStrip(SubSeq(ls, 1, Len(ls) - 1)) ELSE ls

write_trend_pack_report(ls) == RStrip(ls)

\* the bullets of a written report under the heading `title`, up to the next blank line
RECURSIVE UpToBlank(_)
UpToBlank(ls) ==
    IF ls = <<>> \/ ls[1] = Blank THEN <<>> ELSE <<ls[1]>> \o UpToBlank(Tail(ls))

Section(ls, title) ==
    LET at == CHOOSE i \in 1..Len(ls) : ls[i] = Fixed(title)
    IN  UpToBlank(SubSeq(ls, at + 1, Len(ls)))

-----------------------------------------------------------------------------
(* scripts/01 main: the four extracts and the QA section *)

Datasets == <<"orders", "revenue", "review", "late">>

DatasetSet == Range(Datasets)

QaOrders(d) ==
    Then(qa_required_columns(d, <<"purchase_month", "total_orders", "delivered_orders",
                                  "delivered_rate_pct">>, "orders/month"),
    Then(qa_no_nulls(d, <<"purchase_month">>, "orders/month"),
    Then(qa_unique_month(d, "purchase_month", "orders/month", <<>>),
         qa_month_continuity(d, "purchase_month", "orders/month"))))

QaRevenue(d) ==
    Then(qa_required_columns(d, <<"purchase_month", "revenue">>, "revenue/month"),
    Then(qa_no_nulls(d, <<"purchase_month", "revenue">>, "revenue/month"),
    Then(qa_unique_month(d, "purchase_month", "revenue/month", <<>>),
    Then(qa_month_continuity(d, "purchase_month", "revenue/month"),
         qa_non_negative(d, "revenue", "revenue/month")))))

QaReview(d) ==
    Then(qa_required_columns(d, <<"purchase_month", "is_late", "review_count",
                                  "avg_review_score">>, "reviews late vs on-time"),
    Then(qa_no_nulls(d, <<"purchase_month", "is_late">>, "reviews late vs on-time"),
    Then(qa_unique_month(d, "purchase_month", "reviews late vs on-time", <<"is_late">>),
         qa_month_continuity(d, "purchase_month", "reviews late vs on-time"))))

QaLate(d) ==
    Then(qa_required_columns(d, <<"purchase_month", "delivered_orders", "late_delivered_orders",
                                  "late_delivery_rate_pct">>, "late rate/month"),
    Then(qa_no_nulls(d, <<"purchase_month">>, "late rate/month"),
    Then(qa_unique_month(d, "purchase_month", "late rate/month", <<>>),
         qa_month_continuity(d, "purchase_month", "late rate/month"))))

\* the queries run and are exported in order; the source may fail at any of them,
\* leaving the CSVs of the earlier ones
RunQueries ==
    /\ pc01 = "start"
    /\ \E n \in 0..Len(Datasets) :
        /\ csv' = [k \in DatasetSet |->
                      IF \E i \in 1..n : Datasets[i] = k THEN db[k] ELSE NoFile]
        /\ pc01' = IF n = Len(Datasets) THEN "qa" ELSE "failed"
    /\ UNCHANGED <<db, stdout, pc, data, thresholds, charted, lines, report, err>>
    /\ UNCHANGED <<logVars, callVars>>

QaSection ==
    /\ pc01 = "qa"
    /\ LET r == Then(QaOrders(db["orders"]), Then(QaRevenue(db["revenue"]),
                Then(QaReview(db["review"]), QaLate(db["late"]))))
       IN  /\ stdout' = r.out
           /\ pc01' = IF r.exc = NoExc THEN "done" ELSE "failed"
    /\ UNCHANGED <<db, csv, pc, data, thresholds, charted, lines, report, err>>
    /\ UNCHANGED <<logVars, callVars>>

-----------------------------------------------------------------------------
(* scripts/02 main *)

\* load_csv for every dataset, in dict order: the first missing file raises
LoadAll ==
    LET absent == SelectSeq(Datasets, LAMBDA k : csv[k] = NoFile)
    IN  IF absent # <<>> THEN Msg("FileNotFoundError", absent[1], <<>>, <<>>) ELSE NoExc

\* for key, df in data.items(): data[key] = add_month(df, qa_notes=qa_notes)
RECURSIVE AddMonthLoop(_, _, _)
AddMonthLoop(i, tables, notes) ==
    IF i > Len(Datasets) THEN Out(NoExc, tables, notes, <<>>, NoPlot)
    ELSE LET r == add_month(tables[Datasets[i]], "purchase_month", notes)
         IN  IF r.exc # NoExc THEN Out(r.exc, tables, r.notes, <<>>, NoPlot)
             ELSE AddMonthLoop(i + 1, [tables EXCEPT ![Datasets[i]] = r.table], r.notes)

load_trend_pack_data(notes) ==
    IF LoadAll # NoExc THEN Out(LoadAll, csv, notes, <<>>, NoPlot)
    ELSE AddMonthLoop(1, csv, notes)

\* a statement whose exception is swallowed: the run goes on
StepSwallow(from, to, r) ==
    /\ pc = from
    /\ pc' = to
    /\ err' = r.exc

\* one statement of main: on an exception the run ends there
Step(from, to, r) ==
    /\ pc = from
    /\ pc' = IF r.exc = NoExc THEN to ELSE "failed"
    /\ err' = r.exc

Load ==
    /\ pc01 \in {"done", "failed"}
    /\ LET r == load_trend_pack_data(qa_notes)
       IN  /\ Step("start", "loaded", r)
           /\ data' = IF r.exc = NoExc THEN r.table ELSE data
           /\ qa_notes' = r.notes
    /\ UNCHANGED <<pc01, db, csv, stdout, insights, thresholds, charted, lines, report>>
    /\ UNCHANGED callVars

ChartRevenue ==
    /\ LET r == chart_revenue_per_month(data["revenue"], insights)
       IN  /\ Step("loaded", "revenue", r)
           /\ insights' = r.ins
           /\ charted' = [charted EXCEPT !["revenue"] = r.plot]
    /\ UNCHANGED <<pc01, db, csv, stdout, data, qa_notes, thresholds, lines, report>>
    /\ UNCHANGED callVars

ExtendThresholds ==
    /\ pc = "revenue"
    /\ pc' = "thresholds"
    /\ thresholds' = thresholds \o
          <<Threshold("Orders chart: total_orders >= 100"),
            Threshold("Late delivery chart: delivered_orders >= 100"),
            Threshold("Review chart: min_reviews = 30 for both late/on-time"),
            Threshold("Revenue chart: no min-volume filter applied")>>
    /\ UNCHANGED <<pc01, db, csv, stdout, data, charted, lines, report, err>>
    /\ UNCHANGED <<logVars, callVars>>

ChartOrders ==
    /\ LET r == chart_orders_and_delivery_rate(data["orders"], qa_notes, insights)
       IN  /\ Step("thresholds", "orders", r)
           /\ qa_notes' = r.notes
           /\ insights' = r.ins
           /\ charted' = [charted EXCEPT !["orders"] = r.plot]
    /\ UNCHANGED <<pc01, db, csv, stdout, data, thresholds, lines, report>>
    /\ UNCHANGED callVars

ChartLate ==
    /\ LET r == chart_late_delivery_rate(data["late"], qa_notes, insights)
       IN  /\ Step("orders", "late", r)
           /\ qa_notes' = r.notes
           /\ insights' = r.ins
           /\ charted' = [charted EXCEPT !["late"] = r.plot]
    /\ UNCHANGED <<pc01, db, csv, stdout, data, thresholds, lines, report>>
    /\ UNCHANGED callVars

ChartReview ==
    /\ LET r == chart_review_score_late_vs_on_time(data["review"], qa_notes, insights)
       IN  /\ Step("late", "review", r)
           /\ qa_notes' = r.notes
           /\ insights' = r.ins
           /\ charted' = [charted EXCEPT !["review"] = r.plot]
    /\ UNCHANGED <<pc01, db, csv, stdout, data, thresholds, lines, report>>
    /\ UNCHANGED callVars

BuildReport ==
    /\ pc = "review"
    /\ pc' = "built"
    /\ lines' = build_trend_pack_report(thresholds, qa_notes, insights)
    /\ UNCHANGED <<pc01, db, csv, stdout, data, thresholds, charted, report, err>>
    /\ UNCHANGED <<logVars, callVars>>

WriteReport ==
    /\ pc = "built"
    /\ pc' = "done"
    /\ report' = write_trend_pack_report(lines)
    /\ UNCHANGED <<pc01, db, csv, stdout, data, thresholds, charted, lines, err>>
    /\ UNCHANGED <<logVars, callVars>>

-----------------------------------------------------------------------------
(* Direct calls of the helpers and stages on one table df, with the logs   *)
(* the caller passes; ret records the call and the logs as they were       *)
(* before it.                                                              *)

NoCall == [fn |-> "none", cols |-> <<>>, exc |-> NoExc, out |-> <<>>,
           notes0 |-> <<>>, ins0 |-> <<>>, df0 |-> NoFile, arg |-> NoFile,
           thr0 |-> <<>>, lines0 |-> <<>>]

\* arg is the caller's table as the call left it; df0, notes0, ins0, thr0 and
\* lines0 are the table, the lists and the report lines as they were before it
Called(fn, cols, exc, out, arg) ==
    [fn |-> fn, cols |-> cols, exc |-> exc, out |-> out, notes0 |-> qa_notes, ins0 |-> insights,
     df0 |-> df, arg |-> arg, thr0 |-> thresholds, lines0 |-> lines]

\* the column lists the scripts pass as `required`
RequiredLists ==
    {<<"purchase_month", "total_orders", "delivered_orders", "delivered_rate_pct">>,
     <<"purchase_month", "revenue">>,
     <<"purchase_month", "is_late", "review_count", "avg_review_score">>,
     <<"purchase_month", "delivered_orders", "late_delivered_orders", "late_delivery_rate_pct">>,
     <<"month", "revenue">>,
     <<>>}

\* the column lists the scripts pass to qa_no_nulls, and one with a count column
NullLists ==
    {<<"purchase_month">>, <<"purchase_month", "revenue">>, <<"purchase_month", "is_late">>,
     <<"purchase_month", "review_count">>}

\* extra_keys of qa_unique_month
ExtraKeyLists == {<<>>, <<"is_late">>, <<"is_late", "review_count">>}

CanCall == pc = "off" /\ ret.fn \in {"none", "add_month"}

QaCall(r, fn, cols) ==
    /\ CanCall
    /\ ret' = Called(fn, cols, r.exc, r.out, df)
    /\ UNCHANGED <<pc01, db, csv, stdout, pc, data, thresholds, charted, lines, report, err>>
    /\ UNCHANGED <<logVars, df>>

CallRequiredColumns ==
    \E required \in RequiredLists :
        QaCall(qa_required_columns(df, required, "label"), "qa_required_columns", required)

CallNoNulls ==
    \E cols \in NullLists : QaCall(qa_no_nulls(df, cols, "label"), "qa_no_nulls", cols)

CallUniqueMonth ==
    \E extra \in ExtraKeyLists :
        QaCall(qa_unique_month(df, "purchase_month", "label", extra), "qa_unique_month",
               <<"purchase_month">> \o extra)

CallMonthContinuity ==
    QaCall(qa_month_continuity(df, "purchase_month", "label"), "qa_month_continuity",
           <<"purchase_month">>)

CallNonNegative ==
    QaCall(qa_non_negative(df, "revenue", "label"), "qa_non_negative", <<"revenue">>)

\* df = add_month(df, qa_notes=qa_notes), on a table as extracted and once more on
\* the table the first call returned
CallAddMonth ==
    /\ pc = "off"
    /\ ret.fn \in {"none", "add_month"}
    /\ LET r == add_month(df, "purchase_month", qa_notes)
       IN  /\ ret' = Called(IF ret.fn = "none" THEN "add_month" ELSE "add_month_twice",
                            <<"purchase_month">>, r.exc, <<>>,
                            add_month_arg(df, "purchase_month", qa_notes))
           /\ df' = IF r.exc = NoExc THEN r.table ELSE df
           /\ qa_notes' = r.notes
    /\ UNCHANGED <<pc01, db, csv, stdout, pc, data, thresholds, charted, lines, report, err>>
    /\ UNCHANGED insights

ChartCall(r, fn, k) ==
    /\ CanCall
    /\ ret' = Called(fn, <<>>, r.exc, <<>>, r.table)
    /\ qa_notes' = r.notes
    /\ insights' = r.ins
    /\ charted' = [charted EXCEPT ![k] = r.plot]
    /\ UNCHANGED <<pc01, db, csv, stdout, pc, data, thresholds, lines, report, err>>
    /\ UNCHANGED df

CallChartRevenue ==
    LET r == chart_revenue_per_month(df, insights)
    IN  ChartCall([r EXCEPT !.notes = qa_notes], "chart_revenue_per_month", "revenue")

CallChartOrders ==
    ChartCall(chart_orders_and_delivery_rate(df, qa_notes, insights),
              "chart_orders_and_delivery_rate", "orders")

CallChartLate ==
    ChartCall(chart_late_delivery_rate(df, qa_notes, insights),
              "chart_late_delivery_rate", "late")

CallChartReview ==
    ChartCall(chart_review_score_late_vs_on_time(df, qa_notes, insights),
              "chart_review_score_late_vs_on_time", "review")

\* the report lines without the heading and the placeholder of an empty section
OmitEmpty(ls) ==
    LET at == SelectSeq([i \in 1..Len(ls) |-> i],
                        LAMBDA i : /\ ls[i] # Placeholder
                                   /\ ~(i < Len(ls) /\ ls[i + 1] = Placeholder))
    IN  [k \in 1..Len(at) |-> ls[at[k]]]

\* a report builder that leaves out the sections whose list is empty
CallBuildReportOmitting ==
    /\ pc = "off"
    /\ ret.fn \in {"none", "build_trend_pack_report"}
    /\ lines' = OmitEmpty(build_trend_pack_report(thresholds, qa_notes, insights))
    /\ ret' = Called(IF ret.fn = "none" THEN "build_trend_pack_report"
                     ELSE "build_trend_pack_report_twice", <<>>, NoExc, <<>>, df)
    /\ UNCHANGED <<pc01, db, csv, stdout, pc, data, thresholds, charted, report, err>>
    /\ UNCHANGED <<logVars, df>>

\* a report builder that logs a note of its own while it builds
CallBuildReportAppending ==
    /\ pc = "off"
    /\ ret.fn \in {"none", "build_trend_pack_report"}
    /\ lines' = build_trend_pack_report(thresholds, qa_notes, insights)
    /\ qa_notes' = Append(qa_notes, Msg("report built", "", <<>>, <<>>))
    /\ ret' = Called(IF ret.fn = "none" THEN "build_trend_pack_report"
                     ELSE "build_trend_pack_report_twice", <<>>, NoExc, <<>>, df)
    /\ UNCHANGED <<pc01, db, csv, stdout, pc, data, thresholds, charted, report, err>>
    /\ UNCHANGED <<insights, df>>

\* lines = build_trend_pack_report(thresholds, qa_notes, insights), called on the
\* three lists and once more on the same lists: it reads them and returns lines
CallBuildReport ==
    /\ pc = "off"
    /\ ret.fn \in {"none", "build_trend_pack_report"}
    /\ lines' = build_trend_pack_report(thresholds, qa_notes, insights)
    /\ ret' = Called(IF ret.fn = "none" THEN "build_trend_pack_report"
                     ELSE "build_trend_pack_report_twice", <<>>, NoExc, <<>>, df)
    /\ UNCHANGED <<pc01, db, csv, stdout, pc, data, thresholds, charted, report, err>>
    /\ UNCHANGED <<logVars, df>>

\* write_trend_pack_report(lines) on the lines a call returned
CallWriteReport ==
    /\ pc = "off"
    /\ ret.fn \in {"build_trend_pack_report", "build_trend_pack_report_twice"}
    /\ report = <<>>
    /\ report' = write_trend_pack_report(lines)
    /\ UNCHANGED <<pc01, db, csv, stdout, pc, data, thresholds, charted, lines, err>>
    /\ UNCHANGED <<logVars, callVars>>

-----------------------------------------------------------------------------
(* Input tables *)

SeqsUpTo(S, n) == UNION {[1..k -> S] : k \in 0..n}

OrdersCols == {"purchase_month", "total_orders", "delivered_orders", "delivered_rate_pct"}

RevenueCols == {"purchase_month", "revenue"}

ReviewCols == {"purchase_month", "is_late", "review_count", "avg_review_score"}

LateCols == {"purchase_month", "delivered_orders", "late_delivered_orders",
             "late_delivery_rate_pct"}

ColsOf(k) ==
    CASE k = "orders" -> OrdersCols
      [] k = "revenue" -> RevenueCols
      [] k = "review" -> ReviewCols
      [] k = "late" -> LateCols

OrdersRow(m, v) ==
    [purchase_month |-> m, total_orders |-> v, delivered_orders |-> v,
     delivered_rate_pct |-> Num(100)]

RevenueRow(m, x) == [purchase_month |-> m, revenue |-> x]

\* avg_review_score in thousandths
ReviewRow(m, g, n) ==
    [purchase_month |-> m, is_late |-> g, review_count |-> n,
     avg_review_score |-> IF g = Num(1) THEN Num(3000) ELSE IF n = Num(30) THEN Num(4500) ELSE Num(4000)]

LateRow(m, v) ==
    [purchase_month |-> m, delivered_orders |-> v, late_delivered_orders |-> Num(0),
     late_delivery_rate_pct |-> Num(0)]

Jan == <<2021, 1>>
Feb == <<2021, 2>>
Apr == <<2021, 4>>
BadMonth == <<2021, 13>>

OrdersTables ==
    {Table(OrdersCols, rows) :
        rows \in SeqsUpTo({OrdersRow(m, v) : m \in {Jan, Feb, Apr}, v \in {Num(50), Num(100)}}
                          \cup {OrdersRow(BadMonth, Num(50))},
                          MaxRows)}

RevenueTables ==
    {Table(RevenueCols, rows) :
        rows \in SeqsUpTo({RevenueRow(m, x) : m \in {Jan, BadMonth}, x \in {Num(-5), Num(700)}},
                          MaxRows)}

ReviewTables(months) ==
    {Table(ReviewCols, rows) :
        rows \in SeqsUpTo({ReviewRow(m, Num(0), n) : m \in months, n \in {Num(29), Num(30)}}
                          \cup {ReviewRow(m, Num(1), n) :
                                    m \in months, n \in {Null, Num(29), Num(30)}},
                          MaxRows)}

LateTables ==
    {Table(LateCols, rows) :
        rows \in SeqsUpTo({LateRow(m, v) : m \in {Jan}, v \in {Null, Num(99), Num(100)}},
                          MaxRows)}

\* one row per dataset, passing every check and gate
DefaultRows(k) ==
    CASE k = "orders" -> <<OrdersRow(Jan, Num(100))>>
      [] k = "revenue" -> <<RevenueRow(Jan, Num(700))>>
      [] k = "review" -> <<ReviewRow(Jan, Num(0), Num(30)), ReviewRow(Jan, Num(1), Num(30))>>
      [] k = "late" -> <<LateRow(Jan, Num(100))>>

\* the table without one of its columns
DropColumn(t, c) ==
    Table(t.cols \ {c}, [i \in 1..Len(t.rows) |-> [x \in t.cols \ {c} |-> t.rows[i][x]]])

ColumnDropped(k) ==
    {DropColumn(Table(ColsOf(k), DefaultRows(k)), c) : c \in ColsOf(k)}

\* the tables one dataset ranges over in a run of the two scripts
Family(k) ==
    ColumnDropped(k) \cup
    (CASE k = "orders" -> OrdersTables
       [] k = "revenue" -> RevenueTables
       [] k = "review" -> ReviewTables({Jan})
       [] k = "late" -> LateTables)

\* month columns for the continuity check: month lengths 28, 29, 30 and 31, a year
\* boundary, skipped months, a text that does not parse and a missing cell
MonthCells ==
    {<<2020, 2>>, <<2020, 3>>, <<2020, 12>>, <<2021, 1>>, <<2021, 2>>, <<2021, 3>>,
     <<2021, 4>>, <<2021, 5>>, <<2021, 6>>, BadMonth, Null}

MonthTables ==
    {Table({"purchase_month"}, rows) :
        rows \in SeqsUpTo({[purchase_month |-> m] : m \in MonthCells}, MaxRows)}

\* the tables the helpers and stages are called on directly
CallTables ==
    OrdersTables \cup RevenueTables \cup LateTables \cup ReviewTables({Jan, Feb})
    \cup MonthTables \cup UNION {ColumnDropped(k) : k \in DatasetSet}

PriorNote == Msg("unparsed", "add_month", <<"purchase_month">>, <<1>>)

PriorInsight == Insight(<<"INSIGHT", "revenue">>, <<>>)

\* the lists build_trend_pack_report is called on directly
MainThresholds ==
    <<Threshold("Orders chart: total_orders >= 100"),
      Threshold("Late delivery chart: delivered_orders >= 100"),
      Threshold("Review chart: min_reviews = 30 for both late/on-time"),
      Threshold("Revenue chart: no min-volume filter applied")>>

ThresholdLists == {<<>>, <<MainThresholds[1]>>, MainThresholds}

NoteLists ==
    SeqsUpTo({PriorNote, Msg("no stable months", "review score chart", <<>>, <<>>)}, MaxNotes)

InsightLists ==
    SeqsUpTo({Insight(<<"INSIGHT", "revenue">>, <<>>), Insight(<<"INSIGHT", "orders">>, <<>>),
              Insight(<<"INSIGHT", "late">>, <<>>), Insight(<<"INSIGHT">>, <<100, 100, 100, 1, 30>>)},
             MaxInsights)

-----------------------------------------------------------------------------
(* Specifications *)

NoReport == <<>>

Idle ==
    /\ csv = [k \in DatasetSet |-> NoFile]
    /\ stdout = <<>>
    /\ data = [k \in DatasetSet |-> NoFile]
    /\ thresholds = <<>>
    /\ charted = [k \in DatasetSet |-> NoPlot]
    /\ lines = <<>>
    /\ report = NoReport
    /\ err = NoExc
    /\ ret = NoCall

\* a run of scripts/01 then scripts/02 on fresh logs: one dataset ranges over its
\* family, each of the others has no rows or its default rows
Init ==
    /\ pc01 = "start"
    /\ pc = "start"
    /\ \E focus \in DatasetSet :
       \E t \in Family(focus) :
       \E empty \in SUBSET (DatasetSet \ {focus}) :
          db = [k \in DatasetSet |->
                   IF k = focus THEN t
                   ELSE IF k \in empty THEN Table(ColsOf(k), <<>>)
                   ELSE Table(ColsOf(k), DefaultRows(k))]
    /\ qa_notes = <<>>
    /\ insights = <<>>
    /\ df = NoFile
    /\ Idle

Next ==
    \/ RunQueries
    \/ QaSection
    \/ Load
    \/ ChartRevenue
    \/ ExtendThresholds
    \/ ChartOrders
    \/ ChartLate
    \/ ChartReview
    \/ BuildReport
    \/ WriteReport

Spec == Init /\ [][Next]_vars

\* direct calls on one table, with logs that are empty or hold earlier entries
InitCalls ==
    /\ pc01 = "off"
    /\ pc = "off"
    /\ db = [k \in DatasetSet |-> NoFile]
    /\ df \in CallTables
    /\ \E prior \in BOOLEAN :
        /\ qa_notes = IF prior THEN <<PriorNote>> ELSE <<>>
        /\ insights = IF prior THEN <<PriorInsight>> ELSE <<>>
    /\ Idle

NextCalls ==
    \/ CallRequiredColumns
    \/ CallNoNulls
    \/ CallUniqueMonth
    \/ CallMonthContinuity
    \/ CallNonNegative
    \/ CallAddMonth
    \/ CallChartRevenue
    \/ CallChartOrders
    \/ CallChartLate
    \/ CallChartReview

SpecCalls == InitCalls /\ [][NextCalls]_vars

\* direct calls of the report builder and writer on three lists
InitReport ==
    /\ pc01 = "off"
    /\ pc = "off"
    /\ db = [k \in DatasetSet |-> NoFile]
    /\ df = NoFile
    /\ thresholds \in ThresholdLists
    /\ qa_notes \in NoteLists
    /\ insights \in InsightLists
    /\ csv = [k \in DatasetSet |-> NoFile]
    /\ stdout = <<>>
    /\ data = [k \in DatasetSet |-> NoFile]
    /\ charted = [k \in DatasetSet |-> NoPlot]
    /\ lines = <<>>
    /\ report = NoReport
    /\ err = NoExc
    /\ ret = NoCall

NextReport ==
    \/ CallBuildReport
    \/ CallWriteReport

SpecReport == InitReport /\ [][NextReport]_vars

-----------------------------------------------------------------------------
(* The properties checked.  Under SpecCalls, ret is the last direct call,   *)
(* df the table it was made on, ret.notes0 and ret.ins0 the logs before it. *)

\* the entries a call appended to a log that held `old`
Appended(log, old) == SubSeq(log, Len(old) + 1, Len(log))

\* the columns each chart stage requires, by stage
StageRequired(fn) ==
    CASE fn = "chart_revenue_per_month" -> {"month", "revenue"}
      [] fn = "chart_orders_and_delivery_rate" -> {"month", "total_orders", "delivered_rate_pct"}
      [] fn = "chart_late_delivery_rate" -> {"month", "delivered_orders", "late_delivery_rate_pct"}
      [] fn = "chart_review_score_late_vs_on_time" ->
             {"month", "is_late", "review_count", "avg_review_score"}

StageArg(fn) ==
    CASE fn = "chart_revenue_per_month" -> "df_rev"
      [] fn = "chart_orders_and_delivery_rate" -> "df_orders"
      [] fn = "chart_late_delivery_rate" -> "df_late"
      [] fn = "chart_review_score_late_vs_on_time" -> "df_review"

ChartStages ==
    {"chart_revenue_per_month", "chart_orders_and_delivery_rate", "chart_late_delivery_rate",
     "chart_review_score_late_vs_on_time"}

\* C2: the required-columns check (qa_required_columns, and the guard at the top
\* of each chart stage) raises ValueError if and only if a declared column is
\* absent from the table; with all present qa_required_columns returns without
\* raising, printing or logging anything, and a guard that raises logs and plots
\* nothing.
C2_RequiredColumnsIff ==
    /\ ret.fn = "qa_required_columns" =>
          /\ (ret.exc.kind = "ValueError") <=> (\E c \in Range(ret.cols) : c \notin df.cols)
          /\ ret.exc # NoExc =>
                /\ ret.exc.kind = "ValueError"
                /\ Range(ret.exc.cols) = Range(ret.cols) \ df.cols
          /\ Range(ret.cols) \subseteq df.cols =>
                /\ ret.exc = NoExc
                /\ ret.out = <<>>
                /\ qa_notes = ret.notes0
                /\ insights = ret.ins0
    /\ ret.fn \in ChartStages =>
          /\ (ret.exc.kind = "ValueError" /\ ret.exc.who = StageArg(ret.fn))
                <=> ~(StageRequired(ret.fn) \subseteq df.cols)
          /\ ~(StageRequired(ret.fn) \subseteq df.cols) =>
                /\ Range(ret.exc.cols) = StageRequired(ret.fn) \ df.cols
                /\ qa_notes = ret.notes0
                /\ insights = ret.ins0
                /\ \A k \in DatasetSet : charted[k] = NoPlot

\* qa_required_columns raised on a table that has some of the declared columns
C2_Witness ==
    /\ ret.fn = "qa_required_columns"
    /\ ret.exc.kind = "ValueError"
    /\ Range(ret.cols) \cap df.cols # {}
    /\ Len(ret.exc.cols) = 1

\* the months of a table's purchase_month column that parse, as <<y, m>>
ParsedMonths(d) ==
    {d.rows[i]["purchase_month"] : i \in 1..Len(d.rows)}
        \cap {<<y, m>> : y \in 2019..2022, m \in 1..12}

\* the position of a month on the calendar
Ordinal(ym) == 12 * ym[1] + ym[2]

\* a and b are consecutive among the months of S
Consecutive(S, a, b) ==
    /\ Ordinal(a) < Ordinal(b)
    /\ ~\E c \in S : Ordinal(a) < Ordinal(c) /\ Ordinal(c) < Ordinal(b)

\* the "gap before" lines a call printed
GapLines(out) == SelectSeq(out, LAMBDA l : l.kind = "gap before")

\* C5: qa_month_continuity prints nothing when the column holds fewer than two
\* distinct months that parse; otherwise it prints exactly one finding per pair
\* of consecutive distinct months whose first days are more than 35 days apart,
\* naming the later month; months next to each other on the calendar never
\* give a finding and a skipped month always does.
C5_ContinuityFindings ==
    (ret.fn = "qa_month_continuity" /\ ret.exc = NoExc) =>
        LET S      == ParsedMonths(df)
            late   == {b \in S : \E a \in S :
                          /\ Consecutive(S, a, b)
                          /\ DaysFromCivil(b[1], b[2], 1) - DaysFromCivil(a[1], a[2], 1) > 35}
            skip   == {b \in S : \E a \in S :
                          Consecutive(S, a, b) /\ Ordinal(b) - Ordinal(a) >= 2}
            found  == GapLines(ret.out)
        IN  /\ Cardinality(S) < 2 => ret.out = <<>>
            /\ Len(found) = Cardinality(late)
            /\ {<<l.nums[1], l.nums[2], l.nums[3]>> : l \in Range(found)}
                   = {<<b[1], b[2], 1>> : b \in late}
            /\ late = skip
            /\ \A i \in 1..Len(found) : found[i].nums[4] > 35
            /\ (ret.out # <<>>) <=> (late # {})

\* months 2021-01, 2021-02 and 2021-06: exactly one finding, before 2021-06
C5_Witness ==
    /\ ret.fn = "qa_month_continuity"
    /\ ParsedMonths(df) = {<<2021, 1>>, <<2021, 2>>, <<2021, 6>>}
    /\ Len(GapLines(ret.out)) = 1
    /\ GapLines(ret.out)[1].nums = <<2021, 6, 1, 120>>

\* C6: the count qa_unique_month reports equals the number of rows whose full
\* key tuple equals the key tuple of an earlier row, and a finding is printed if
\* and only if that count is not zero.
C6_DuplicateCount ==
    (ret.fn = "qa_unique_month" /\ ret.exc = NoExc) =>
        LET n    == Len(df.rows)
            dups == {i \in 1..n : \E j \in 1..(i - 1) :
                        \A c \in Range(ret.cols) : df.rows[j][c] = df.rows[i][c]}
        IN  IF dups = {} THEN ret.out = <<>>
            ELSE ret.out = <<Msg("duplicates", "label", ret.cols, <<Cardinality(dups)>>)>>

\* two rows share the month but not the extra key: a duplicate by month alone,
\* none by the key list with is_late
C6_Witness ==
    /\ ret.fn = "qa_unique_month"
    /\ ret.exc = NoExc
    /\ ret.cols = <<"purchase_month", "is_late">>
    /\ Len(df.rows) = 3
    /\ df.rows[1]["purchase_month"] = df.rows[2]["purchase_month"]
    /\ df.rows[1]["is_late"] # df.rows[2]["is_late"]
    /\ ret.out # <<>>
    /\ ret.out[1].nums = <<1>>

\* the volume column and log name of the two filtering stages
FilterColumn(fn) ==
    IF fn = "chart_orders_and_delivery_rate" THEN "total_orders" ELSE "delivered_orders"

FilterDataset(fn) == IF fn = "chart_orders_and_delivery_rate" THEN "orders" ELSE "late"

FilterName(fn) ==
    IF fn = "chart_orders_and_delivery_rate" THEN "orders chart" ELSE "late delivery chart"

\* C7: in the orders and late-delivery stages every charted row has its volume
\* column >= 100, every input row with volume >= 100 is charted, in input order,
\* and the stage logs the drop count len(input) - len(charted) if and only if it
\* is not zero.
C7_ChartFilter ==
    (ret.fn \in {"chart_orders_and_delivery_rate", "chart_late_delivery_rate"}
        /\ ret.exc = NoExc) =>
        LET col   == FilterColumn(ret.fn)
            kept  == charted[FilterDataset(ret.fn)]
            pass  == {i \in 1..Len(df.rows) : df.rows[i][col] \in {Num(v) : v \in 100..1000}}
            drop  == Len(df.rows) - Len(kept)
        IN  /\ \A i \in 1..Len(kept) : kept[i][col] # Null /\ kept[i][col][1] >= 100
            /\ Len(kept) = Cardinality(pass)
            /\ \A i \in pass : kept[Cardinality({j \in pass : j <= i})] = df.rows[i]
            /\ Appended(qa_notes, ret.notes0) =
                  IF drop # 0
                  THEN <<Msg("dropped", FilterName(ret.fn), <<col>>, <<drop, 100>>)>>
                  ELSE <<>>

\* a row at the threshold charted between two dropped rows' neighbours: three
\* input rows, the middle one dropped, the other two charted in order
C7_Witness ==
    /\ ret.fn = "chart_orders_and_delivery_rate"
    /\ ret.exc = NoExc
    /\ Len(df.rows) = 3
    /\ df.rows[2]["total_orders"] = Num(50)
    /\ charted["orders"] = <<df.rows[1], df.rows[3]>>
    /\ df.rows[1] # df.rows[3]
    /\ Appended(qa_notes, ret.notes0) # <<>>

\* the rows of the (month, is_late) group that hold a review count, by index
Counted(d, m, g) ==
    {i \in 1..Len(d.rows) :
        /\ d.rows[i]["month"] = m
        /\ d.rows[i]["is_late"] = g
        /\ d.rows[i]["review_count"] # Null}

\* the months of the pivot before the gate: a parsed month with a row of some group
PivotMonths(d) ==
    {d.rows[i]["month"] : i \in {j \in 1..Len(d.rows) :
        d.rows[j]["month"] # Null /\ d.rows[j]["is_late"] # Null}}

\* the "dropped" notes a call appended
DropNotes(fn) == SelectSeq(Appended(qa_notes, ret.notes0), LAMBDA l : l.kind = "dropped")

ReviewCall == ret.fn = "chart_review_score_late_vs_on_time" /\ ret.exc = NoExc

NoStableNotes == SelectSeq(Appended(qa_notes, ret.notes0), LAMBDA l : l.kind = "no stable months")

\* C9: past the column checks the review stage either finds no stable month and
\* appends exactly one "no months met stability threshold" note and no insight,
\* or finds one and appends exactly one insight and no such note; it never does
\* both or neither, and the earlier entries of both logs stay.
C9_FindingXorInsight ==
    ReviewCall =>
        /\ SubSeq(qa_notes, 1, Len(ret.notes0)) = ret.notes0
        /\ SubSeq(insights, 1, Len(ret.ins0)) = ret.ins0
        /\ IF charted["review"] = <<>>
           THEN Len(NoStableNotes) = 1 /\ Appended(insights, ret.ins0) = <<>>
           ELSE /\ NoStableNotes = <<>>
                /\ Len(Appended(insights, ret.ins0)) = 1
                /\ Appended(insights, ret.ins0)[1].kind = "INSIGHT"
                /\ Appended(insights, ret.ins0)[1].nums[4] = Len(charted["review"])

\* both groups present, no month stable: the note and no insight
C9_Witness ==
    /\ ReviewCall
    /\ PivotMonths(df) # {}
    /\ charted["review"] = <<>>
    /\ Len(NoStableNotes) = 1
    /\ insights = ret.ins0

-----------------------------------------------------------------------------
(* Under Spec: a run of scripts/01 followed by scripts/02 *)

\* the logged lines listed under a heading of the written report
Listed(title) ==
    {l.item : l \in {x \in Range(Section(report, title)) : x # Placeholder}}

RunCompleted == pc01 = "done" /\ pc = "done"

\* C1 as stated: in a completed run a warning is listed under QA Notes if and
\* only if some stage raised it, the warnings printed by the QA checks of
\* scripts/01 included.
C1_WarningsReachQANotes ==
    RunCompleted => Listed("## QA Notes") = Range(stdout) \cup Range(qa_notes)

\* C3: the report is written only after load and the four chart stages completed
\* without an exception; a run that an exception ended stays ended, with no
\* report lines built and no report written.
C3_ReportOnlyAfterAllStages ==
    /\ lines # <<>> =>
          /\ pc \in {"built", "done"}
          /\ err = NoExc
          /\ \A k \in DatasetSet : data[k] # NoFile /\ charted[k] # NoPlot
    /\ report # NoReport => pc = "done" /\ lines # <<>>
    /\ err # NoExc => pc = "failed"
    /\ pc = "failed" =>
          /\ err # NoExc
          /\ report = NoReport
          /\ ~ENABLED (Load \/ ChartRevenue \/ ExtendThresholds \/ ChartOrders \/ ChartLate
                          \/ ChartReview \/ BuildReport \/ WriteReport)

\* the review stage raised on a missing pivot group after the other three stages
\* had charted: the run ended with no report
C3_Witness ==
    /\ pc = "failed"
    /\ err.kind = "ValueError"
    /\ err.who = "review pivot"
    /\ charted["orders"] # NoPlot
    /\ charted["late"] # NoPlot
    /\ report = NoReport

\* orders rows for 2021-01, 2021-02 and 2021-04, total_orders 50 in 2021-02, >= 100 else
C4_Scenario ==
    /\ Len(db["orders"].rows) = 3
    /\ db["orders"].cols = OrdersCols
    /\ {<<r["purchase_month"], r["total_orders"][1] >= 100>> : r \in Range(db["orders"].rows)}
           = {<<Jan, TRUE>>, <<Feb, FALSE>>, <<Apr, TRUE>>}
    /\ \A r \in Range(db["orders"].rows) : r["purchase_month"] = Feb => r["total_orders"] = Num(50)

\* C4 as stated: in that scenario the continuity check reports exactly one gap,
\* the orders stage drops exactly the 2021-02 row and records a drop count of 1,
\* the charted series holds 2021-01 and 2021-04 only, and the report's QA Notes
\* list both the gap message and the drop message.
C4_EndToEnd ==
    (C4_Scenario /\ RunCompleted) =>
        LET gaps == SelectSeq(GapLines(stdout), LAMBDA l : l.who = "orders/month")
        IN  /\ Len(gaps) = 1
            /\ gaps[1].nums = <<2021, 4, 1, 59>>
            /\ [i \in 1..Len(charted["orders"]) |-> charted["orders"][i]["purchase_month"]]
                   = <<Jan, Apr>>
            /\ Msg("dropped", "orders chart", <<"total_orders">>, <<1, 100>>)
                   \in Listed("## QA Notes")
            /\ gaps[1] \in Listed("## QA Notes")

\* every table holds all the columns its stage requires
AllColumnsPresent == \A k \in DatasetSet : db[k].cols = ColsOf(k)

\* C10 as stated: with all required columns present (a review table with no rows,
\* or with one delivery group absent, included) no chart stage raises and the run
\* goes on to write the report.
C10_DataQualityNonFatal ==
    (pc01 = "done" /\ AllColumnsPresent) => err = NoExc

-----------------------------------------------------------------------------
(* Under SpecCalls: add_month.  ret.df0 is the table passed, df the table   *)
(* returned.                                                                *)

\* the permutations of 1..n
Perms(n) == {p \in [1..n -> 1..n] : \A i, j \in 1..n : i # j => p[i] # p[j]}

\* a row restricted to the columns cols
Unkeyed(r, cols) == [c \in cols |-> r[c]]

\* a month text that is a month of the calendar
Parses(v) == v \in {<<y, m>> : y \in 2019..2022, m \in 1..12}

AddMonthCall == ret.fn = "add_month" /\ ret.exc = NoExc

\* C11: add_month returns the rows of its input, each with its parsed key, in
\* ascending order of the parsed keys, and two rows with equal keys (two missing
\* keys included) come out in the order they went in.
C11_StableSort ==
    AddMonthCall =>
        LET n == Len(ret.df0.rows)
        IN  /\ Len(df.rows) = n
            /\ \E p \in Perms(n) :
                  /\ \A i \in 1..n : Unkeyed(df.rows[i], ret.df0.cols) = ret.df0.rows[p[i]]
                  /\ \A i, j \in 1..n :
                        (i < j /\ df.rows[i]["month"] = df.rows[j]["month"]) => p[i] < p[j]
            /\ \A i, j \in 1..n :
                  (i < j /\ df.rows[i]["month"] # Null /\ df.rows[j]["month"] # Null)
                      => df.rows[i]["month"][1] <= df.rows[j]["month"][1]

\* three rows, the second moved to the front, the other two of one month and
\* different, kept in their input order
C11_Witness ==
    /\ AddMonthCall
    /\ Len(df.rows) = 3
    /\ Unkeyed(df.rows[1], ret.df0.cols) = ret.df0.rows[2]
    /\ Unkeyed(df.rows[2], ret.df0.cols) = ret.df0.rows[1]
    /\ Unkeyed(df.rows[3], ret.df0.cols) = ret.df0.rows[3]
    /\ df.rows[2]["month"] = df.rows[3]["month"]
    /\ df.rows[2]["month"] # Null
    /\ ret.df0.rows[1] # ret.df0.rows[3]
    /\ ret.df0.rows[1] # ret.df0.rows[2]

\* C12: add_month keeps every row; a row gets a missing key if and only if its
\* month text does not parse, and such rows come after every row with a key;
\* one note carrying the number of such rows is appended to the QA notes if and
\* only if that number is not zero.
C12_KeepsRowsNullsLast ==
    AddMonthCall =>
        LET n   == Len(df.rows)
            bad == Cardinality({i \in 1..Len(ret.df0.rows) :
                                   ~Parses(ret.df0.rows[i]["purchase_month"])})
        IN  /\ n = Len(ret.df0.rows)
            /\ \A i \in 1..n :
                  (df.rows[i]["month"] = Null) <=> ~Parses(df.rows[i]["purchase_month"])
            /\ \A i, j \in 1..n :
                  (df.rows[i]["month"] = Null /\ df.rows[j]["month"] # Null) => j < i
            /\ SubSeq(qa_notes, 1, Len(ret.notes0)) = ret.notes0
            /\ Appended(qa_notes, ret.notes0) =
                  IF bad # 0
                  THEN <<Msg("unparsed", "add_month", <<"purchase_month">>, <<bad>>)>>
                  ELSE <<>>

\* a row that does not parse went in first and came out last of three, counted
\* in a note with a second one
C12_Witness ==
    /\ AddMonthCall
    /\ Len(df.rows) = 3
    /\ ~Parses(ret.df0.rows[1]["purchase_month"])
    /\ Parses(ret.df0.rows[2]["purchase_month"])
    /\ df.rows[1]["month"] # Null
    /\ df.rows[2]["month"] = Null
    /\ df.rows[3]["month"] = Null
    /\ Appended(qa_notes, ret.notes0) =
           <<Msg("unparsed", "add_month", <<"purchase_month">>, <<2>>)>>

\* C13 as stated: add_month applied to the table add_month returned gives the
\* same columns, rows and row order and has no other effect: the QA notes stay
\* as the first application left them.
C13_Idempotent ==
    (ret.fn = "add_month_twice" /\ ret.exc = NoExc) =>
        /\ df = ret.df0
        /\ qa_notes = ret.notes0

-----------------------------------------------------------------------------
(* Under SpecReport: build_trend_pack_report called on three lists.  lines  *)
(* holds what the last call returned, ret.lines0 what the call before did.  *)

\* the headings of the report, in the order of the source
ReportOutline ==
    <<"# Olist Monthly Trend Pack",
      "## Executive Summary",
      "## Metric Definitions",
      "## Generated Charts",
      "## Thresholds / Filters",
      "## QA Notes",
      "# Chart Notes & Insights",
      "## 01) Revenue per Month (Delivered Orders Only)",
      "**Chart:** outputs/charts/01_revenue_per_month.png",
      "**QA gate:** none (baseline visibility)",
      "**So what**",
      "**Follow-up question**",
      "## 02) Orders per Month + Delivered Rate",
      "**Chart:** outputs/charts/02_orders_and_delivered_rate.png",
      "**QA gate:** total_orders >= 100",
      "**So what**",
      "**Follow-up question**",
      "## 03) Late Delivery Rate (Delivered Orders Only)",
      "**Chart:** outputs/charts/03_late_delivery_rate.png",
      "**QA gate:** delivered_orders >= 100",
      "**So what**",
      "**Follow-up question**",
      "## 04) Avg Review Score - Late vs On-Time",
      "**Chart:** outputs/charts/04_review_score_late_vs_on_time.png",
      "**QA gate:** min_reviews = 30 for both groups",
      "**So what**",
      "**Follow-up question**",
      "## Reproducibility">>

\* the heading texts among the lines, in line order
Headings(ls) ==
    LET hs == SelectSeq(ls, LAMBDA l : l.kind = "fixed" /\ l.text \in Range(ReportOutline))
    IN  [i \in 1..Len(hs) |-> hs[i].text]

ReportCall == ret.fn \in {"build_trend_pack_report", "build_trend_pack_report_twice"}

\* C14: whatever the three lists hold, all empty included, the lines returned
\* carry every heading of the report once, in the one fixed order: title,
\* Executive Summary, Metric Definitions, Generated Charts, Thresholds / Filters,
\* QA Notes, the four chart subsections (heading, chart, QA gate, So what,
\* follow-up question), Reproducibility.
C14_FixedOutline ==
    ReportCall => Headings(lines) = ReportOutline

\* the report of three empty lists has the full outline
C14_Witness ==
    /\ ReportCall
    /\ thresholds = <<>>
    /\ qa_notes = <<>>
    /\ insights = <<>>
    /\ Headings(lines) = ReportOutline

\* the lines under each occurrence of the heading `title`, up to the blank line
Blocks(ls, title) ==
    LET at == SelectSeq([i \in 1..Len(ls) |-> i], LAMBDA i : ls[i] = Fixed(title))
    IN  [k \in 1..Len(at) |-> UpToBlank(SubSeq(ls, at[k] + 1, Len(ls)))]

\* the section shows the list: the placeholder alone when the list is empty,
\* else one bullet per element, in order, and no placeholder
Shows(section, list) ==
    /\ (Placeholder \in Range(section)) <=> (list = <<>>)
    /\ list = <<>> => section = <<Placeholder>>
    /\ list # <<>> =>
          /\ Len(section) = Len(list)
          /\ \A i \in 1..Len(list) : section[i].kind = "bullet" /\ section[i].item = list[i]

\* the insights whose text holds the tag of chart k, or for chart 4 none of them
SoWhatList(ins, k) ==
    LET tags == <<"revenue", "orders", "late">>
    IN  IF k < 4 THEN SelectSeq(ins, LAMBDA i : tags[k] \in Range(i.cols))
        ELSE SelectSeq(ins, LAMBDA i : "INSIGHT" \in Range(i.cols)
                                      /\ Range(i.cols) \cap Range(tags) = {})

\* C15: the Executive Summary, Thresholds / Filters, QA Notes and the four
\* 'So what' blocks each render exactly one '- (none)' line if and only if the
\* list feeding them is empty, and otherwise one bullet per element of it.
C15_PlaceholderIffEmpty ==
    ReportCall =>
        /\ Shows(Section(lines, "## Executive Summary"),
                 [i \in 1..(IF Len(insights) < 2 THEN Len(insights) ELSE 2) |-> insights[i]])
        /\ Shows(Section(lines, "## Thresholds / Filters"), thresholds)
        /\ Shows(Section(lines, "## QA Notes"), qa_notes)
        /\ Len(Blocks(lines, "**So what**")) = 4
        /\ \A k \in 1..4 : Shows(Blocks(lines, "**So what**")[k], SoWhatList(insights, k))

\* QA Notes empty and shown as the placeholder, two revenue insights shown as two
\* bullets, the other three blocks as the placeholder
C15_Witness ==
    /\ ReportCall
    /\ Section(lines, "## QA Notes") = <<Placeholder>>
    /\ Len(Blocks(lines, "**So what**")[1]) = 2
    /\ Placeholder \notin Range(Blocks(lines, "**So what**")[1])
    /\ Blocks(lines, "**So what**")[4] = <<Placeholder>>
    /\ Len(Section(lines, "## Thresholds / Filters")) = 4

-----------------------------------------------------------------------------
(* Under Spec: the Executive Summary of a run's report *)

\* the insights of the revenue, orders and late-delivery stages
Tagged(ins) ==
    SelectSeq(ins, LAMBDA i : Range(i.cols) \cap {"revenue", "orders", "late"} # {})

\* the position of an insight's stage in the run
StageOrder(i) ==
    CASE "revenue" \in Range(i.cols) -> 1
      [] "orders" \in Range(i.cols) -> 2
      [] "late" \in Range(i.cols) -> 3
      [] OTHER -> 4

\* C17: the Executive Summary of the written report lists exactly the first
\* min(2, n) entries of the insights log, in log order; the log holds the
\* insights in the order revenue, orders, late, review, so the review insight is
\* in the summary only when at most one of the three earlier stages gave one.
C17_ExecutiveSummaryCap ==
    pc = "done" =>
        LET n     == Len(insights)
            shown == Section(report, "## Executive Summary")
        IN  /\ n = 0 => shown = <<Placeholder>>
            /\ n > 0 =>
                  /\ Len(shown) = IF n < 2 THEN n ELSE 2
                  /\ \A i \in 1..Len(shown) : shown[i] = Bullet(insights[i])
            /\ \A i, j \in 1..n : i < j => StageOrder(insights[i]) < StageOrder(insights[j])
            /\ (\E l \in Range(shown) : l.kind = "bullet" /\ StageOrder(l.item) = 4)
                   => Len(Tagged(insights)) <= 1

\* the review insight is the second line of the summary, after the revenue insight
C17_Witness ==
    /\ pc = "done"
    /\ Len(insights) = 2
    /\ StageOrder(insights[1]) = 1
    /\ Section(report, "## Executive Summary")[2] = Bullet(insights[2])
    /\ StageOrder(insights[2]) = 4

-----------------------------------------------------------------------------
(* Under SpecCalls: the table passed to a call *)

NullCount(d, c) == Cardinality({i \in 1..Len(d.rows) : d.rows[i][c] = Null})

\* the null findings of the declared columns cols[1..upto] of d, in order
NullFindings(d, cols, upto) ==
    LET at == SelectSeq([i \in 1..upto |-> i], LAMBDA i : NullCount(d, cols[i]) # 0)
    IN  [k \in 1..Len(at) |-> Msg("nulls", "label", <<cols[at[k]]>>, <<NullCount(d, cols[at[k]])>>)]

-----------------------------------------------------------------------------
(* Under Spec: the two logs of a run *)

IsPrefix(a, b) == Len(a) <= Len(b) /\ SubSeq(b, 1, Len(a)) = a

\* C20: a run starts with both logs empty; every step of scripts/02 leaves what
\* the QA notes and the insights held as a prefix of what they hold after it; a
\* chart stage that raises adds nothing to either log, and neither does building
\* or writing the report.
C20_AppendOnly ==
    /\ qa_notes = <<>> /\ insights = <<>>
    /\ [][/\ IsPrefix(qa_notes, qa_notes')
          /\ IsPrefix(insights, insights')
          /\ (pc # "start" /\ err' # NoExc) => (qa_notes' = qa_notes /\ insights' = insights)
          /\ pc \in {"review", "built"} => (qa_notes' = qa_notes /\ insights' = insights)]_vars

\* a completed run whose QA notes hold the note of add_month and, after it, the
\* drop note of the orders stage, and whose insights hold all four stages'
C20_Witness ==
    /\ pc = "done"
    /\ Len(qa_notes) = 2
    /\ qa_notes[1].kind = "unparsed"
    /\ qa_notes[2].kind = "dropped"
    /\ Len(insights) = 4

-----------------------------------------------------------------------------
(* Under Spec: the insights of a run and the chart blocks of its report *)

\* the value of pc at which main calls chart stage k
StagePc == <<"loaded", "thresholds", "orders", "late">>

\* the 'So what' blocks of the report, 1..4, that list the insight x
ListedIn(ls, x) ==
    {k \in 1..Len(Blocks(ls, "**So what**")) : Bullet(x) \in Range(Blocks(ls, "**So what**")[k])}

\* the insights of the log that chart stage k of the run appended
ProducedBy(ins, k) == SelectSeq(ins, LAMBDA i : StageOrder(i) = k)

\* C21: in a run, chart stage k appends at most one insight, which carries the
\* mark of stage k ([revenue], [orders], [late], or [INSIGHT] alone for the
\* review stage), and no other step adds one; in the report written, each
\* insight of the log is listed in exactly one of the four 'So what' blocks,
\* once, and that block is the one of the stage that appended it; a block whose
\* stage appended none shows the placeholder.
C21_OneBlockPerInsight ==
    /\ [](pc = "done" =>
            LET blocks == Blocks(report, "**So what**")
            IN  /\ Len(blocks) = 4
                /\ \A i \in 1..Len(insights) :
                      ListedIn(report, insights[i]) = {StageOrder(insights[i])}
                /\ \A k \in 1..4 :
                      LET mine == ProducedBy(insights, k)
                      IN  /\ Len(mine) <= 1
                          /\ blocks[k] = IF mine = <<>> THEN <<Placeholder>>
                                         ELSE <<Bullet(mine[1])>>)
    /\ [][/\ \A k \in 1..4 :
                pc = StagePc[k] =>
                    /\ IsPrefix(insights, insights')
                    /\ Len(insights') <= Len(insights) + 1
                    /\ \A i \in (Len(insights) + 1)..Len(insights') :
                          StageOrder(insights'[i]) = k
          /\ pc \notin Range(StagePc) => insights' = insights]_vars

\* a written report of a run whose revenue stage gave no insight and whose
\* orders and review stages did: block 01 shows the placeholder, block 02 the
\* orders insight, block 04 the review insight
C21_Witness ==
    /\ pc = "done"
    /\ ProducedBy(insights, 1) = <<>>
    /\ Blocks(report, "**So what**")[1] = <<Placeholder>>
    /\ ProducedBy(insights, 2) # <<>>
    /\ Blocks(report, "**So what**")[2] = <<Bullet(ProducedBy(insights, 2)[1])>>
    /\ ProducedBy(insights, 4) # <<>>
    /\ Blocks(report, "**So what**")[4] = <<Bullet(ProducedBy(insights, 4)[1])>>

====
